---- MODULE Spec2Model ----
(***************************************************************************)
(* FaceTrack attendance kiosk: the App component (src/App.tsx, second      *)
(* listing, lines 387-691), the registration form                          *)
(* (src/components/StaffRegistration.tsx, lines 167-357), the camera       *)
(* scanner (src/components/CameraScanner.tsx) and the GeminiService         *)
(* (src/services/geminiService.ts), as a state machine.                    *)
(*                                                                         *)
(* Conventions.                                                            *)
(*  - A JavaScript string (an identifier, a name, a URL, a data URL) is a  *)
(*    sequence of tokens, the empty string being << >>; trim(),            *)
(*    startsWith(), includes() and truthiness are computed on the tokens.  *)
(*    A blank is the token " ".                                            *)
(*  - A remote array entry that is null, or has no id, is an entry whose   *)
(*    id is << >>: `r && r.id` treats them alike.                          *)
(*  - The date and time strings of an attendance record are [t, parses]:   *)
(*    t is the minute they denote, parses tells whether                    *)
(*    new Date(date + ' ' + timestamp) yields a number (else NaN).         *)
(***************************************************************************)
EXTENDS Integers, Sequences, FiniteSets, TLC

VARIABLES
  storage,          \* localStorage: the three facetrack-v1-* entries
  mounted,          \* the mount effects of App have run
  activeTab,        \* App state
  clockMode,
  staffList,
  history,
  webhookUrl,
  isProcessing,
  isSyncing,
  toast,
  lastRecognition,
  syncEffectDue,    \* the sync effect (App.tsx 462-468) has to re-run
  intervalOn,       \* a setInterval(fetchFromCloud) is armed
  pull,             \* the fetchCloudData request in flight, if any
  pulls,            \* fetchCloudData requests started so far
  cloudData,        \* what the last fetchCloudData call returned
  remoteHistory,    \* the rows of the endpoint's sheets
  remoteStaff,
  otherRows,        \* the rows other clients of the sheet may add in this run
  posts,            \* POSTs (no-cors) in flight
  calls,            \* identifyStaff calls in flight, with their closures
  apiKey,           \* process.env.API_KEY is set
  isCameraReady,    \* CameraScanner state
  scanner,          \* CameraScanner: the runs of its setup effect, one per mount
  identifyOutcome,  \* how the last identifyStaff call ended
  modelRequests,    \* generateContent requests sent so far
  dismissTimers,    \* pending setTimeout(() => setLastRecognition(null))
  testStatus,       \* SheetConfig: result of the last testConnection
  testInFlight,     \* a GET ?action=test awaits its response
  testRequests,     \* GET ?action=test requests sent so far
  errorOverlay,     \* App state: the blocking "Setup Needed" overlay
  now,              \* the client's clock, in minutes
  localeParses,     \* new Date() parses the dates this browser's locale writes
  ops,              \* operations of users and of other clients so far (bounds the run)
  last              \* the last operation and its outcome (observation only)

vars == <<storage, mounted, activeTab, clockMode, staffList, history, webhookUrl,
          isProcessing, isSyncing, toast, lastRecognition, syncEffectDue,
          intervalOn, pull, pulls, cloudData, remoteHistory, remoteStaff, otherRows, posts,
          calls, apiKey, isCameraReady, scanner, identifyOutcome, modelRequests,
          dismissTimers, testStatus, testInFlight, testRequests, errorOverlay, now,
          localeParses, ops, last>>

----------------------------------------------------------------------------
(* Bounds of the model *)

MaxOps == 3          \* operations of the user and of other clients per run
MaxCalls == 2        \* identifyStaff calls in flight together
MaxPosts == 1        \* POSTs in flight together
MaxRemote == 2       \* rows another client may add to the sheet
MaxTicks == 1        \* minutes that pass during a run
MaxPulls == 2        \* pulls started during a run
MaxMounts == 3       \* mounts of the camera scanner during a run

(* Program constants *)

MAX_STAFF == 100
HISTORY_CAP == 100
VALID_STAFF_CAP == 10

----------------------------------------------------------------------------
(* Sequences *)

Take(s, n) == IF Len(s) <= n THEN s ELSE SubSeq(s, 1, n)

Range(s) == {s[i] : i \in 1..Len(s)}

----------------------------------------------------------------------------
(* JavaScript strings as token sequences *)

Blank == " "

Truthy(text) == Len(text) > 0

RECURSIVE TrimStart(_)
TrimStart(text) ==
  IF Len(text) > 0 /\ Head(text) = Blank THEN TrimStart(Tail(text)) ELSE text

RECURSIVE TrimEnd(_)
TrimEnd(text) ==
  IF Len(text) > 0 /\ text[Len(text)] = Blank
    THEN TrimEnd(SubSeq(text, 1, Len(text) - 1))
    ELSE text

Trim(text) == TrimEnd(TrimStart(text))

StartsWith(text, tok) == Len(text) > 0 /\ text[1] = tok

Includes(text, tok) == \E i \in 1..Len(text) : text[i] = tok

IncludesPair(text, a, b) ==
  \E i \in 1..(Len(text) - 1) : text[i] = a /\ text[i + 1] = b

(* The tokens that begin with "http" *)
HttpTokens == {"https://script.google.com", "https://", "http://"}

StartsWithHttp(text) == Len(text) > 0 /\ text[1] \in HttpTokens

----------------------------------------------------------------------------
(* URLs *)

ScriptHost == "https://script.google.com"

EmptyUrl == << >>
GoodUrl == <<ScriptHost, "/macros/s/ID", "/exec">>
DevUrl == <<ScriptHost, "/macros/s/ID", "/dev">>
FormUrl == <<"https://", "docs.google.com", "/forms", "/d/e/ID">>
SheetUrl == <<"https://", "docs.google.com", "/spreadsheets">>
ExecFormUrl == <<ScriptHost, "/exec", "?u=", "docs.google.com", "/forms">>
PlainExecUrl == <<"http://", "example.org", "/exec">>

(* App.tsx: isScriptUrl *)
isScriptUrl(url) ==
  /\ StartsWith(url, ScriptHost)
  /\ Includes(url, "/exec")
  /\ ~Includes(url, "docs.google.com")

----------------------------------------------------------------------------
(* Records *)

(* A data URL as produced by canvas.toDataURL('image/jpeg', 0.9) *)
CroppedPhoto == <<"data:image/jpeg;", "base64,", "AAAA">>

NewStaff(id, name, role, photo) ==
  [id |-> id, name |-> name, role |-> role, avatarUrl |-> photo, isCustom |-> TRUE]

(* new Date(r.date + ' ' + r.timestamp).getTime(): a number, or NaN *)
IsNaN(r) == ~r.parses

(* The comparator of the merge sort *)
compare(a, b) == IF IsNaN(a) \/ IsNaN(b) THEN 0 ELSE b.t - a.t

(* The comparator is consistent on s when "compares equal" is transitive
   there: no date is NaN, or the dates that are numbers are all the same *)
ConsistentOn(s) ==
  LET numbers == {s[i].t : i \in {k \in 1..Len(s) : ~IsNaN(s[k])}}
  IN  \/ \A i \in 1..Len(s) : ~IsNaN(s[i])
      \/ Cardinality(numbers) <= 1

(* Array.prototype.sort with a consistent comparator is a stable sort *)
Precedes(a, b) == compare(a, b) < 0

StableSort(s) == SortSeq(s, Precedes)

Orderings(s) ==
  LET n == Len(s)
      bij == {f \in [1..n -> 1..n] : \A i, j \in 1..n : f[i] = f[j] => i = j}
  IN  {[i \in 1..n |-> s[f[i]]] : f \in bij}

(* Array.prototype.sort: with a comparator that is not consistent the order
   is implementation-defined (ECMA-262, 23.1.3.30) *)
SortOutcomes(s) ==
  IF ConsistentOn(s) THEN {StableSort(s)} ELSE Orderings(s)

----------------------------------------------------------------------------
(* GeminiService.fetchCloudData *)

(* The value returned: null, or {history, staff} *)
NullData == [isNull |-> TRUE, history |-> << >>, staff |-> << >>]

CloudData(h, s) == [isNull |-> FALSE, history |-> h, staff |-> s]

(* A reading of a field that trusts it to be an array *)
ArrayOrEmptyTrusting(field) == field.items

(* A field of the parsed JSON: [isArray, items] *)
ArrayOrEmpty(field) == IF field.isArray THEN field.items ELSE << >>

(* The guard before the request *)
fetchCloudDataSends(url) ==
  Truthy(url) /\ StartsWith(url, ScriptHost) /\ Includes(url, "/exec")

(* A fetchCloudData that answers a response that is not JSON with empty lists *)
fetchCloudDataLenient(resp) ==
  IF resp.fails THEN NullData
  ELSE IF ~Truthy(resp.contentType) \/ ~Includes(resp.contentType, "application/json")
    THEN CloudData(<< >>, << >>)
  ELSE IF ~resp.ok THEN NullData
  ELSE IF resp.length < 2 THEN NullData
  ELSE IF ~resp.parses THEN NullData
  ELSE IF resp.data.truthy /\ resp.data.isObject
    THEN CloudData(ArrayOrEmpty(resp.data.history), ArrayOrEmpty(resp.data.staff))
  ELSE NullData

(* The value returned for the response resp =
   [fails, contentType, ok, length, parses, data], where data =
   [truthy, isObject, history, staff] is the parsed JSON value *)
fetchCloudDataResult(resp) ==
  IF resp.fails THEN NullData                                   \* catch (error)
  ELSE IF ~Truthy(resp.contentType) \/ ~Includes(resp.contentType, "application/json")
    THEN NullData
  ELSE IF ~resp.ok THEN NullData
  ELSE IF resp.length < 2 THEN NullData
  ELSE IF ~resp.parses THEN NullData                            \* catch (e)
  ELSE IF resp.data.truthy /\ resp.data.isObject
    THEN CloudData(ArrayOrEmpty(resp.data.history), ArrayOrEmpty(resp.data.staff))
  ELSE NullData

fetchCloudData(url, resp) ==
  IF fetchCloudDataSends(url) THEN fetchCloudDataResult(resp) ELSE NullData

----------------------------------------------------------------------------
(* App.fetchFromCloud: the two state updaters *)

Ids(s) == {s[i].id : i \in 1..Len(s)}

(* A filter that forgets the ids the list already holds *)
NewEntriesAnyId(prev, incoming) ==
  LET HasId(r) == Truthy(r.id)
  IN  SelectSeq(incoming, HasId)

NewEntries(prev, incoming) ==
  LET existingIds == Ids(prev)
      IsNew(r) == Truthy(r.id) /\ r.id \notin existingIds
  IN  SelectSeq(incoming, IsNew)

(* A merge that takes the history of the sheet for the local one *)
MergeHistoryRemoteWins(prev, cloudHistory) ==
  IF Len(cloudHistory) = 0 THEN {prev} ELSE {Take(cloudHistory, HISTORY_CAP)}

(* A merge without the slice(0, 100) *)
MergeHistoryUncapped(prev, cloudHistory) ==
  LET newRecords == NewEntries(prev, cloudHistory)
  IN  IF Len(newRecords) = 0 THEN {prev} ELSE SortOutcomes(newRecords \o prev)

(* setHistory(prev => ...): the histories the updater may return *)
MergeHistory(prev, cloudHistory) ==
  LET newRecords == NewEntries(prev, cloudHistory)
  IN  IF Len(newRecords) = 0
        THEN {prev}
        ELSE {Take(sorted, HISTORY_CAP) : sorted \in SortOutcomes(newRecords \o prev)}

(* setStaffList(prev => ...) *)
MergeStaff(prev, cloudStaff) ==
  LET newStaff == NewEntries(prev, cloudStaff)
  IN  IF Len(newStaff) = 0 THEN prev ELSE prev \o newStaff

----------------------------------------------------------------------------
(* GeminiService.testConnection *)

InvalidScriptUrlMsg == "Invalid Script URL. Ensure it ends with /exec."
GoogleFormUrlMsg == "This is a Google Form URL. You must use the Apps Script 'Web App' URL."

TestResult(success, message) == [success |-> success, message |-> message]

(* The shape testConnection asks of a URL: the script host in front, /exec in
   it, and no docs.google.com/forms *)
ScriptEndpointShape(url) ==
  /\ Truthy(url)
  /\ StartsWith(url, ScriptHost)
  /\ Includes(url, "/exec")
  /\ ~IncludesPair(url, "docs.google.com", "/forms")

(* A guard that looks at the host only *)
testConnectionGuardHostOnly(url) ==
  IF ~Truthy(url) \/ ~StartsWith(url, ScriptHost)
    THEN TestResult(FALSE, InvalidScriptUrlMsg)
  ELSE IF IncludesPair(url, "docs.google.com", "/forms")
    THEN TestResult(FALSE, GoogleFormUrlMsg)
  ELSE TestResult(FALSE, "send")

(* What testConnection returns before any request, or "send" *)
testConnectionGuard(url) ==
  IF ~Truthy(url) \/ ~StartsWith(url, ScriptHost) \/ ~Includes(url, "/exec")
    THEN TestResult(FALSE, InvalidScriptUrlMsg)
  ELSE IF IncludesPair(url, "docs.google.com", "/forms")
    THEN TestResult(FALSE, GoogleFormUrlMsg)
  ELSE TestResult(FALSE, "send")

(* The value returned for the response resp = [outcome, ok, status, text] *)
testConnectionResult(resp) ==
  IF resp.outcome = "abort" THEN TestResult(FALSE, "Connection timeout.")
  ELSE IF resp.outcome = "error"
    THEN TestResult(FALSE, "Connection failed. Check your internet.")
  ELSE IF ~resp.ok THEN TestResult(FALSE, "Server error")
  ELSE IF Trim(resp.text) = <<"OK">>
    THEN TestResult(TRUE, "Connected successfully!")
  ELSE TestResult(FALSE, "Invalid script response. Check Deployment settings.")

----------------------------------------------------------------------------
(* GeminiService.identifyStaff *)

UsableAvatar(s) ==
  /\ Truthy(s.avatarUrl)
  /\ (Includes(s.avatarUrl, "base64,") \/ StartsWithHttp(s.avatarUrl))

validStaff(list) == Take(SelectSeq(list, UsableAvatar), VALID_STAFF_CAP)

Outcome(kind, value) == [kind |-> kind, value |-> value]

(* A RecognitionResult; typed tells that the value has the fields and the
   types of the response schema (geminiService.ts 86-96), which the cast of
   line 102 takes for granted *)
Result(identified_, staffId, staffName, confidence, message) ==
  [identified |-> identified_, staffId |-> staffId, staffName |-> staffName,
   confidence |-> confidence, message |-> message, typed |-> TRUE]

(* A parsed JSON value that is not of the schema, as the code reads it: the
   truthiness of identified, staffId and staffName, 0 and "" for what is
   missing *)
Untyped(result) == [result EXCEPT !.typed = FALSE]

NoResult == Result(FALSE, << >>, << >>, 0, "")

(* A call that builds its request without looking at validStaff.length *)
identifyStaffSendsAlways(apiKey_, list) == apiKey_

(* The call sends a generateContent request *)
identifyStaffSends(apiKey_, list) == apiKey_ /\ Len(validStaff(list)) > 0

(* How the call ends without a request: it throws, or returns a result *)
identifyStaffShortcut(apiKey_, list) ==
  IF ~apiKey_ THEN Outcome("throws", NoResult)                  \* API Key is missing.
  ELSE Outcome("returns", Result(FALSE, << >>, << >>, 0, "No registered staff found."))

(* How the call ends for the reply = [fails, hasText, parses, value] *)
identifyStaffReply(reply) ==
  IF reply.fails THEN Outcome("throws", NoResult)
  ELSE IF ~reply.hasText THEN Outcome("throws", NoResult)       \* Empty response from AI
  ELSE IF ~reply.parses THEN Outcome("throws", NoResult)        \* JSON.parse throws
  ELSE Outcome("returns", reply.value)

(* CameraScanner.captureFrame: what is handed to onResult *)
captureResult(outcome) ==
  IF outcome.kind = "returns"
    THEN outcome.value
    ELSE Result(FALSE, << >>, << >>, 0, "Network interference.")

----------------------------------------------------------------------------
(* localStorage *)

Item(v) == [present |-> TRUE, valid |-> TRUE, value |-> v]

Absent == [present |-> FALSE, valid |-> TRUE, value |-> << >>]

(* An entry whose text JSON.parse rejects; value is what the text was meant
   to hold *)
Corrupt(v) == [present |-> TRUE, valid |-> FALSE, value |-> v]

(* A load that takes the stored value without parsing it *)
LoadedTrusting(item, reached) ==
  IF reached /\ item.present THEN item.value ELSE << >>

(* The load effect (App.tsx 411-424): the state an entry gives, when the
   statements before it have not thrown (reached); the state keeps its
   initial value [] otherwise *)
Loaded(item, reached) ==
  IF reached /\ item.present /\ item.valid THEN item.value ELSE << >>

(* The persist effects (App.tsx 470-490) after a render with these values *)
PersistStaff(st, list) == [st EXCEPT !.staff = Item(list)]

PersistHistory(st, h) == [st EXCEPT !.history = Item(h)]

PersistUrl(st, url) == IF Truthy(url) THEN [st EXCEPT !.url = Item(url)] ELSE st

Persist(st, list, h, url) == PersistUrl(PersistHistory(PersistStaff(st, list), h), url)

----------------------------------------------------------------------------
(* The states a run may start from: what earlier sessions left behind *)

StartMinute == HISTORY_CAP

Ann == NewStaff(<<"E1">>, <<"Ann">>, <<"Educator">>, CroppedPhoto)

Roster(n) ==
  [i \in 1..n |-> NewStaff(<<ToString(i)>>, <<"Staff", ToString(i)>>,
                           <<"Educator">>, CroppedPhoto)]

Record(id, staffId, staffName, t, parses, type) ==
  [id |-> id, staffId |-> staffId, staffName |-> staffName, t |-> t,
   parses |-> parses, status |-> "PRESENT", type |-> type,
   method |-> "FACE_RECOGNITION"]

(* n records created one per minute, the most recent first, in a locale whose
   dates new Date() parses, or does not parse *)
Log(n, parses) ==
  [i \in 1..n |-> Record(<<"h", ToString(i)>>, <<"E1">>, <<"Ann">>,
                         StartMinute - i, parses, "SIGN_IN")]

Store(list, h, url) == [staff |-> list, history |-> h, url |-> url]

(* Rows other clients of the sheet may add: as old as the oldest local record,
   or written by a client whose clock is ahead *)
ParsedRows ==
  { Record(<<"f1">>, <<"E7">>, <<"Eve">>, 1, TRUE, "SIGN_IN"),
    Record(<<"f3">>, <<"E7">>, <<"Eve">>, StartMinute + MaxTicks + 1, TRUE, "SIGN_IN") }

(* Rows older than every local record: one whose date does not parse, one
   without id *)
MixedRows ==
  { Record(<<"f4">>, <<"E7">>, <<"Eve">>, 0, FALSE, "SIGN_IN"),
    Record(<< >>, <<"E7">>, <<"Eve">>, 0, TRUE, "SIGN_IN") }

(* A row older than every local record, whose date does not parse *)
UnparsedRows == { Record(<<"f4">>, <<"E7">>, <<"Eve">>, 0, FALSE, "SIGN_IN") }

FreshStore == Store(Absent, Absent, Absent)
SmallStore == Store(Item(<<Ann>>), Item(Log(1, TRUE)), Item(GoodUrl))
FullLogStore(parses) ==
  Store(Item(<<Ann>>), Item(Log(HISTORY_CAP - 1, parses)), Item(GoodUrl))
FullRosterStore == Store(Item(Roster(MAX_STAFF)), Item(<< >>), Absent)

(* Each start: the storage, the rows the sheet already holds, the rows other
   clients may add, and whether the locale's dates parse *)
Start(st, h, s, rows, parses) ==
  [storage |-> st, remoteHistory |-> h, remoteStaff |-> s, otherRows |-> rows,
   localeParses |-> parses]

FreshStart == Start(FreshStore, << >>, << >>, MixedRows, TRUE)

(* A client with one identity and no endpoint URL *)
OfflineStart ==
  Start(Store(Item(<<Ann>>), Item(Log(1, TRUE)), Absent), << >>, << >>, MixedRows, TRUE)

SmallStart == Start(SmallStore, Log(1, TRUE), <<Ann>>, MixedRows, TRUE)

(* A history one short of the cap, whose oldest record is on the sheet *)
FullLogStart ==
  Start(FullLogStore(TRUE),
        SubSeq(Log(HISTORY_CAP - 1, TRUE), HISTORY_CAP - 1, HISTORY_CAP - 1),
        <<Ann>>, ParsedRows, TRUE)

(* The same in a locale whose dates do not parse (25/12/2026), the sheet
   returning dates that do not parse either *)
UnparsedLogStart ==
  Start(FullLogStore(FALSE),
        SubSeq(Log(HISTORY_CAP - 1, FALSE), HISTORY_CAP - 1, HISTORY_CAP - 1),
        <<Ann>>, UnparsedRows, FALSE)

FullRosterStart == Start(FullRosterStore, << >>, << >>, ParsedRows, TRUE)

(* A sheet that holds the same row twice: the row of a POST sent twice *)
RepeatedRowStart ==
  LET row == Record(<<"f1">>, <<"E7">>, <<"Eve">>, 1, TRUE, "SIGN_IN")
  IN  Start(SmallStore, <<row, row>>, <<Ann>>, MixedRows, TRUE)

(* Stores with an entry that does not parse *)
CorruptStaffStart ==
  Start(Store(Corrupt(<<Ann>>), Item(Log(1, TRUE)), Item(GoodUrl)),
        << >>, << >>, MixedRows, TRUE)

CorruptHistoryStart ==
  Start(Store(Item(<<Ann>>), Corrupt(Log(1, TRUE)), Item(GoodUrl)),
        << >>, << >>, MixedRows, TRUE)

Starts == {FreshStart, SmallStart, FullLogStart, UnparsedLogStart, FullRosterStart}

NoLast == [op |-> "none", arg |-> << >>, out |-> "none"]

Last(op, arg, out) == [op |-> op, arg |-> arg, out |-> out]

NoToast == [message |-> "none", type |-> "none"]

Toast(message, type) == [message |-> message, type |-> type]

NoRecognition == [shown |-> FALSE, name |-> << >>, type |-> "none", t |-> 0]

(* The state after construction, for a set of starts and of API key settings *)
InitFrom(starts, keys) ==
  /\ \E start \in starts :
       /\ storage = start.storage
       /\ remoteHistory = start.remoteHistory
       /\ remoteStaff = start.remoteStaff
       /\ otherRows = start.otherRows
       /\ localeParses = start.localeParses
  /\ apiKey \in keys
  /\ mounted = FALSE
  /\ activeTab = "attendance"
  /\ clockMode = "SIGN_IN"
  /\ staffList = << >>
  /\ history = << >>
  /\ webhookUrl = EmptyUrl
  /\ isProcessing = FALSE
  /\ isSyncing = FALSE
  /\ toast = NoToast
  /\ lastRecognition = NoRecognition
  /\ syncEffectDue = FALSE
  /\ intervalOn = FALSE
  /\ pull = << >>
  /\ pulls = 0
  /\ cloudData = NullData
  /\ posts = << >>
  /\ calls = << >>
  /\ isCameraReady = FALSE
  /\ scanner = << >>
  /\ identifyOutcome = Outcome("none", NoResult)
  /\ modelRequests = 0
  /\ dismissTimers = 0
  /\ testStatus = [type |-> "idle", message |-> ""]
  /\ testInFlight = FALSE
  /\ testRequests = 0
  /\ errorOverlay = FALSE
  /\ now = StartMinute
  /\ ops = 0
  /\ last = NoLast

Init == InitFrom(Starts, BOOLEAN)

----------------------------------------------------------------------------
(* Inputs *)

Tabs == {"attendance", "registration", "settings"}

(* What the user may have typed into the registration form *)
NameTexts == {<<"Ann">>, <<"Bob", Blank>>}
IdTexts == {<<"E1">>, <<Blank, "E2">>, <<ToString(MAX_STAFF)>>, <<Blank>>}
Photos == {CroppedPhoto, << >>}
ROLE_OPTIONS == {<<"Educator">>}

(* What the user may set as endpoint URL in the settings view *)
Urls == {EmptyUrl, GoodUrl, FormUrl}

(* Identities other clients of the sheet may have pushed: two clients have
   registered a different person under the same id *)
ForeignStaff ==
  { [id |-> <<"E7">>, name |-> <<"Eve">>, role |-> <<"Admin">>,
     avatarUrl |-> << >>, isCustom |-> FALSE],
    [id |-> <<"E7">>, name |-> <<"Eva">>, role |-> <<"Admin">>,
     avatarUrl |-> << >>, isCustom |-> FALSE] }

(* The responses the endpoint may give to GET ?action=get_data while its
   sheets hold the rows h and s *)
JsonType == <<"application/json", "; charset=utf-8">>
HtmlType == <<"text/html", "; charset=utf-8">>

Field(isArray, items) == [isArray |-> isArray, items |-> items]

Json(truthy, isObject, h, s) ==
  [truthy |-> truthy, isObject |-> isObject, history |-> h, staff |-> s]

Response(fails, contentType, ok, length, parses, data) ==
  [fails |-> fails, contentType |-> contentType, ok |-> ok, length |-> length,
   parses |-> parses, data |-> data]

NoJson == Json(FALSE, FALSE, Field(FALSE, << >>), Field(FALSE, << >>))

DataResponse(h, s) ==
  Response(FALSE, JsonType, TRUE, 2, TRUE, Json(TRUE, TRUE, Field(TRUE, h), Field(TRUE, s)))

HtmlErrorPage == Response(FALSE, HtmlType, TRUE, 2, FALSE, NoJson)

Responses(h, s) ==
  { DataResponse(h, s),
    HtmlErrorPage,
    Response(TRUE, << >>, FALSE, 0, FALSE, NoJson),            \* fetch rejects
    Response(FALSE, << >>, TRUE, 2, TRUE, Json(TRUE, TRUE, Field(TRUE, h), Field(TRUE, s))),
    Response(FALSE, JsonType, FALSE, 2, TRUE, Json(TRUE, TRUE, Field(TRUE, h), Field(TRUE, s))),
    Response(FALSE, JsonType, TRUE, 0, FALSE, NoJson),         \* empty body
    Response(FALSE, JsonType, TRUE, 2, FALSE, NoJson),         \* malformed JSON
    Response(FALSE, JsonType, TRUE, 4, TRUE, NoJson),          \* the JSON null
    Response(FALSE, JsonType, TRUE, 2, TRUE, Json(TRUE, FALSE, Field(FALSE, << >>), Field(FALSE, << >>))),
    Response(FALSE, JsonType, TRUE, 2, TRUE, Json(TRUE, TRUE, Field(FALSE, << >>), Field(TRUE, s))) }

----------------------------------------------------------------------------
(* CameraScanner: the setup effect *)

(* A run of the setup effect of CameraScanner (21-70): the mounted flag of
   its closure, the getUserMedia request, the stream it was granted, whether
   streamRef holds the stream, and whether the metadata has loaded. The refs
   belong to the mount: streamRef is null when the effect runs, so the stop at
   the head of setupCamera (24-26) finds nothing *)
NewSetup ==
  [mounted |-> TRUE, request |-> "pending", stream |-> "none", held |-> FALSE,
   ready |-> FALSE, error |-> FALSE]

(* A setup that keeps the stream without looking at the mounted flag *)
setupCameraGrantedUnchecked(run) ==
  [run EXCEPT !.request = "granted", !.stream = "live", !.held = TRUE]

(* getUserMedia resolves (38-54) *)
setupCameraGranted(run) ==
  IF ~run.mounted
    THEN [run EXCEPT !.request = "granted", !.stream = "stopped"]
    ELSE [run EXCEPT !.request = "granted", !.stream = "live", !.held = TRUE]

(* getUserMedia rejects (55-60) *)
setupCameraFailed(run) ==
  [run EXCEPT !.request = "failed", !.error = run.mounted]

(* The cleanup of the effect (64-69) *)
setupCameraCleanup(run) ==
  [run EXCEPT !.mounted = FALSE,
              !.stream = IF run.held /\ run.stream = "live" THEN "stopped" ELSE run.stream]

----------------------------------------------------------------------------
(* App: mount *)

(* The mount effects: the setup effect of the camera scanner, which App
   renders in every view (App.tsx 603), the load effect (App.tsx 411-424),
   then the persist effects with what the load has set *)
Mount ==
  /\ ~mounted
  /\ LET st == storage.staff
         hi == storage.history
         ur == storage.url
         staffThrows == st.present /\ ~st.valid
         historyThrows == ~staffThrows /\ hi.present /\ ~hi.valid
     IN  /\ staffList' = Loaded(st, TRUE)
         /\ history' = Loaded(hi, ~staffThrows)
         /\ webhookUrl' = IF ~staffThrows /\ ~historyThrows /\ ur.present /\ Truthy(ur.value)
                            THEN ur.value ELSE EmptyUrl
  /\ storage' = Persist(storage, staffList', history', webhookUrl')
  /\ mounted' = TRUE
  /\ scanner' = Append(scanner, NewSetup)
  /\ syncEffectDue' = TRUE
  /\ last' = Last("mount", << >>, "done")
  /\ UNCHANGED <<pulls, activeTab, clockMode, isProcessing, isSyncing, toast, lastRecognition,
                 intervalOn, pull, cloudData, remoteHistory, remoteStaff, otherRows, localeParses, posts, calls,
                 apiKey, isCameraReady, identifyOutcome, modelRequests, dismissTimers,
                 testStatus, testInFlight, testRequests, errorOverlay, now, ops>>

IdleTest == [type |-> "idle", message |-> ""]

(* The tab buttons (App.tsx 646-650). SheetConfig lives on the settings tab
   only: leaving the tab unmounts it, its state is gone and the response of a
   test still in flight is dropped *)
SetActiveTab(tab) ==
  /\ mounted
  /\ ~errorOverlay
  /\ activeTab # tab
  /\ ops < MaxOps
  /\ ops' = ops + 1
  /\ activeTab' = tab
  /\ testStatus' = IF activeTab = "settings" THEN IdleTest ELSE testStatus
  /\ testInFlight' = IF activeTab = "settings" THEN FALSE ELSE testInFlight
  /\ last' = Last("tab", << >>, tab)
  /\ UNCHANGED <<scanner, pulls, storage, mounted, clockMode, staffList, history, webhookUrl,
                 isProcessing, isSyncing, toast, lastRecognition, syncEffectDue,
                 intervalOn, pull, cloudData, remoteHistory, remoteStaff, otherRows, localeParses, posts, calls,
                 apiKey, isCameraReady, identifyOutcome, modelRequests, dismissTimers,
                 testRequests, errorOverlay, now>>

----------------------------------------------------------------------------
(* Registration *)

(* App.tsx 669: <StaffRegistration onRegister={handleRegister} />, the
   staffCount prop is not passed: the component reads undefined *)
staffCount(list) == [defined |-> FALSE, value |-> 0]

(* staffCount >= MAX_STAFF: false when staffCount is undefined *)
AtLeast(prop, n) == prop.defined /\ prop.value >= n

Post(action, data) == [action |-> action, data |-> data]

(* syncToGoogleSheets / syncStaffToCloud: the guard before the POST *)
syncSends(url) == Truthy(url) /\ StartsWithHttp(url) /\ Includes(url, "/exec")

(* A registration check that compares names instead of ids *)
NameTaken(list, newStaff) == \E i \in 1..Len(list) : list[i].name = newStaff.name

(* staffList.some(s => s.id === newStaff.id) *)
IdTaken(list, newStaff) == \E i \in 1..Len(list) : list[i].id = newStaff.id

(* App.handleRegister *)
handleRegister(newStaff) ==
  IF IdTaken(staffList, newStaff)
    THEN /\ toast' = Toast("already exists", "error")
         /\ last' = Last("register", newStaff.id, "duplicate")
         /\ UNCHANGED <<staffList, posts, activeTab, storage>>
    ELSE /\ staffList' = Append(staffList, newStaff)
         /\ IF Truthy(webhookUrl) /\ isScriptUrl(webhookUrl)
              THEN /\ posts' = IF syncSends(webhookUrl)
                                 THEN Append(posts, Post("add_staff", newStaff))
                                 ELSE posts
                   /\ toast' = Toast("saved to cloud", "success")
              ELSE /\ posts' = posts
                   /\ toast' = Toast("registered", "success")
         /\ activeTab' = "attendance"
         /\ storage' = PersistStaff(storage, staffList')
         /\ last' = Last("register", newStaff.id, "added")

(* StaffRegistration.handleSubmit *)
handleSubmit(name, role, photo, staffId) ==
  /\ mounted
  /\ ~errorOverlay
  /\ activeTab = "registration"
  /\ ops < MaxOps
  /\ Len(posts) < MaxPosts
  /\ ops' = ops + 1
  /\ IF AtLeast(staffCount(staffList), MAX_STAFF)
       THEN /\ last' = Last("register", Trim(staffId), "capacity")
            /\ UNCHANGED <<staffList, posts, activeTab, storage, toast>>
       ELSE IF ~Truthy(name) \/ ~Truthy(role) \/ ~Truthy(photo) \/ ~Truthy(staffId)
         THEN /\ last' = Last("register", Trim(staffId), "incomplete")
              /\ UNCHANGED <<staffList, posts, activeTab, storage, toast>>
         ELSE handleRegister(NewStaff(Trim(staffId), Trim(name), Trim(role), photo))
  /\ UNCHANGED <<scanner, pulls, mounted, clockMode, history, webhookUrl, isProcessing, isSyncing,
                 lastRecognition, syncEffectDue, intervalOn, pull, cloudData,
                 remoteHistory, remoteStaff, otherRows, localeParses, calls, apiKey, isCameraReady,
                 identifyOutcome, modelRequests, dismissTimers, testStatus,
                 testInFlight, testRequests, errorOverlay, now>>

----------------------------------------------------------------------------
(* Remote sync *)

(* A guard that does not look at isSyncing *)
fetchFromCloudRunsUnguarded ==
  Truthy(webhookUrl) /\ isScriptUrl(webhookUrl) /\ pulls < MaxPulls

(* The guard of App.fetchFromCloud *)
fetchFromCloudRuns ==
  Truthy(webhookUrl) /\ isScriptUrl(webhookUrl) /\ ~isSyncing /\ pulls < MaxPulls

(* App.fetchFromCloud up to its await; a change of isSyncing re-runs the sync
   effect, whose dependency fetchFromCloud depends on it *)
fetchFromCloud ==
  IF fetchFromCloudRuns
    THEN /\ isSyncing' = TRUE
         /\ pull' = Append(pull, [url |-> webhookUrl])
         /\ pulls' = pulls + 1
         /\ syncEffectDue' = TRUE
    ELSE /\ UNCHANGED <<isSyncing, pull, pulls>>
         /\ syncEffectDue' = FALSE

(* The sync effect (App.tsx 462-468) *)
SyncEffect ==
  /\ mounted
  /\ syncEffectDue
  /\ IF Truthy(webhookUrl) /\ isScriptUrl(webhookUrl)
       THEN /\ fetchFromCloud
            /\ intervalOn' = TRUE
       ELSE /\ intervalOn' = FALSE
            /\ syncEffectDue' = FALSE
            /\ UNCHANGED <<isSyncing, pull, pulls>>
  /\ last' = Last("effect", << >>, IF isSyncing' # isSyncing THEN "pull" ELSE "idle")
  /\ UNCHANGED <<scanner, storage, mounted, activeTab, clockMode, staffList, history, webhookUrl,
                 isProcessing, toast, lastRecognition, cloudData, remoteHistory,
                 remoteStaff, otherRows, localeParses, posts, calls, apiKey, isCameraReady, identifyOutcome,
                 modelRequests, dismissTimers, testStatus, testInFlight, testRequests, errorOverlay, now, ops>>

(* The periodic timer: setInterval(fetchFromCloud, 300000) *)
TimerTick ==
  /\ mounted
  /\ intervalOn
  /\ ~syncEffectDue
  /\ fetchFromCloud
  /\ last' = Last("timer", << >>, IF isSyncing' # isSyncing THEN "pull" ELSE "idle")
  /\ UNCHANGED <<scanner, storage, mounted, activeTab, clockMode, staffList, history, webhookUrl,
                 isProcessing, toast, lastRecognition, intervalOn, cloudData,
                 remoteHistory, remoteStaff, otherRows, localeParses, posts, calls, apiKey, isCameraReady,
                 identifyOutcome, modelRequests, dismissTimers, testStatus,
                 testInFlight, testRequests, errorOverlay, now, ops>>

(* The Cloud Sync button (App.tsx 589) *)
ManualSync ==
  /\ mounted
  /\ ~errorOverlay
  /\ ~syncEffectDue
  /\ ~isSyncing /\ Truthy(webhookUrl)
  /\ ops < MaxOps
  /\ ops' = ops + 1
  /\ fetchFromCloud
  /\ last' = Last("button", << >>, IF isSyncing' # isSyncing THEN "pull" ELSE "idle")
  /\ UNCHANGED <<scanner, storage, mounted, activeTab, clockMode, staffList, history, webhookUrl,
                 isProcessing, toast, lastRecognition, intervalOn, cloudData,
                 remoteHistory, remoteStaff, otherRows, localeParses, posts, calls, apiKey, isCameraReady,
                 identifyOutcome, modelRequests, dismissTimers, testStatus,
                 testInFlight, testRequests, errorOverlay, now>>

(* The URL field of the settings view: onUrlChange = setWebhookUrl *)
OnUrlChange(url) ==
  /\ mounted
  /\ ~errorOverlay
  /\ activeTab = "settings"
  /\ url # webhookUrl
  /\ ops < MaxOps
  /\ ops' = ops + 1
  /\ webhookUrl' = url
  /\ storage' = PersistUrl(storage, url)
  /\ syncEffectDue' = TRUE
  /\ last' = Last("url", url, "set")
  /\ UNCHANGED <<scanner, pulls, mounted, activeTab, clockMode, staffList, history, isProcessing,
                 isSyncing, toast, lastRecognition, intervalOn, pull, cloudData,
                 remoteHistory, remoteStaff, otherRows, localeParses, posts, calls, apiKey, isCameraReady,
                 identifyOutcome, modelRequests, dismissTimers, testStatus,
                 testInFlight, testRequests, errorOverlay, now>>

(* The response to the pull in flight: the rest of App.fetchFromCloud *)
PullResponse(resp) ==
  /\ Len(pull) > 0
  /\ LET data == fetchCloudData(Head(pull).url, resp)
     IN  /\ cloudData' = data
         /\ IF data.isNull
              THEN UNCHANGED <<history, staffList>>
              ELSE /\ history' \in MergeHistory(history, data.history)
                   /\ staffList' = MergeStaff(staffList, data.staff)
         /\ last' = Last("pull", resp.contentType,
                         IF data.isNull THEN "null" ELSE "data")
  /\ pull' = Tail(pull)
  /\ isSyncing' = FALSE
  /\ syncEffectDue' = TRUE
  /\ storage' = PersistHistory(PersistStaff(storage, staffList'), history')
  /\ UNCHANGED <<scanner, pulls, mounted, activeTab, clockMode, webhookUrl, isProcessing, toast,
                 lastRecognition, intervalOn, remoteHistory, remoteStaff, otherRows, localeParses, posts, calls,
                 apiKey, isCameraReady, identifyOutcome, modelRequests, dismissTimers,
                 testStatus, testInFlight, testRequests, errorOverlay, now, ops>>

(* A POST reaches the script, which appends the row to its sheet *)
PostDelivered ==
  /\ Len(posts) > 0
  /\ IF Head(posts).action = "add_record"
       THEN /\ remoteHistory' = Append(remoteHistory, Head(posts).data)
            /\ UNCHANGED remoteStaff
       ELSE /\ remoteStaff' = Append(remoteStaff, Head(posts).data)
            /\ UNCHANGED remoteHistory
  /\ posts' = Tail(posts)
  /\ last' = Last("post", << >>, "delivered")
  /\ UNCHANGED <<scanner, pulls, otherRows, localeParses, storage, mounted, activeTab, clockMode, staffList, history, webhookUrl,
                 isProcessing, isSyncing, toast, lastRecognition, syncEffectDue,
                 intervalOn, pull, cloudData, calls, apiKey, isCameraReady,
                 identifyOutcome, modelRequests, dismissTimers, testStatus,
                 testInFlight, testRequests, errorOverlay, now, ops>>

(* A failing POST that takes back what the handler had stored *)
PostLostRollsBack ==
  /\ Len(posts) > 0
  /\ posts' = Tail(posts)
  /\ LET IsOther(r) == r # Head(posts).data
     IN  /\ history' = SelectSeq(history, IsOther)
         /\ staffList' = SelectSeq(staffList, IsOther)
  /\ storage' = PersistHistory(PersistStaff(storage, staffList'), history')
  /\ last' = Last("post", << >>, "lost")
  /\ UNCHANGED <<scanner, pulls, mounted, activeTab, clockMode, webhookUrl,
                 isProcessing, isSyncing, toast, lastRecognition, syncEffectDue,
                 intervalOn, pull, cloudData, remoteHistory, remoteStaff, otherRows, localeParses, calls, apiKey,
                 isCameraReady, identifyOutcome, modelRequests, dismissTimers,
                 testStatus, testInFlight, testRequests, errorOverlay, now, ops>>

(* A POST fails: the promise resolves to {success: false}, which nobody reads *)
PostLost ==
  /\ Len(posts) > 0
  /\ posts' = Tail(posts)
  /\ last' = Last("post", << >>, "lost")
  /\ UNCHANGED <<scanner, pulls, storage, mounted, activeTab, clockMode, staffList, history, webhookUrl,
                 isProcessing, isSyncing, toast, lastRecognition, syncEffectDue,
                 intervalOn, pull, cloudData, remoteHistory, remoteStaff, otherRows, localeParses, calls, apiKey,
                 isCameraReady, identifyOutcome, modelRequests, dismissTimers,
                 testStatus, testInFlight, testRequests, errorOverlay, now, ops>>

(* Another client of the sheet adds a row *)
ForeignRowCount ==
  Cardinality({i \in 1..Len(remoteHistory) : remoteHistory[i] \in otherRows})

RemoteRowAdded(row) ==
  /\ ForeignRowCount < MaxRemote
  /\ row \notin Range(remoteHistory)
  /\ ops < MaxOps
  /\ ops' = ops + 1
  /\ remoteHistory' = Append(remoteHistory, row)
  /\ last' = Last("remote", row.id, "row")
  /\ UNCHANGED <<scanner, pulls, storage, mounted, activeTab, clockMode, staffList, history, webhookUrl,
                 isProcessing, isSyncing, toast, lastRecognition, syncEffectDue,
                 intervalOn, pull, cloudData, remoteStaff, otherRows, localeParses, posts, calls, apiKey,
                 isCameraReady, identifyOutcome, modelRequests, dismissTimers,
                 testStatus, testInFlight, testRequests, errorOverlay, now>>

RemoteStaffAdded(s) ==
  /\ s \notin Range(remoteStaff)
  /\ remoteStaff' = Append(remoteStaff, s)
  /\ last' = Last("remote", s.id, "staff")
  /\ UNCHANGED <<scanner, pulls, storage, mounted, activeTab, clockMode, staffList, history, webhookUrl,
                 isProcessing, isSyncing, toast, lastRecognition, syncEffectDue,
                 intervalOn, pull, cloudData, remoteHistory, otherRows, localeParses, posts, calls, apiKey,
                 isCameraReady, identifyOutcome, modelRequests, dismissTimers,
                 testStatus, testInFlight, testRequests, errorOverlay, now, ops>>

----------------------------------------------------------------------------
(* Recognition *)

(* What the model may reply to a generateContent request *)
Reply(fails, hasText, parses, value) ==
  [fails |-> fails, hasText |-> hasText, parses |-> parses, value |-> value]

ModelReplies ==
  { Reply(TRUE, FALSE, FALSE, NoResult),                        \* the request fails
    Reply(FALSE, FALSE, FALSE, NoResult),                       \* no text
    Reply(FALSE, TRUE, FALSE, NoResult),                        \* not JSON
    Reply(FALSE, TRUE, TRUE, Result(TRUE, <<"E1">>, <<"Ann">>, 92, "Match")),
    Reply(FALSE, TRUE, TRUE, Result(TRUE, <<"E1">>, <<"Ann">>, 60, "Match")),
    Reply(FALSE, TRUE, TRUE, Result(FALSE, << >>, << >>, 10, "No match")),
    \* {"identified": "yes", "staffId": "E1", "staffName": "Ann"}
    Reply(FALSE, TRUE, TRUE, Untyped(Result(TRUE, <<"E1">>, <<"Ann">>, 0, ""))) }

(* A reply of the schema that names an identity no reference was sent for *)
StrayReply == Reply(FALSE, TRUE, TRUE, Result(TRUE, <<"E9">>, <<"Zed">>, 95, "Match"))

(* The replies that parse into a value of the schema *)
ParsedReplies == {reply \in ModelReplies : reply.parses /\ reply.value.typed}

(* Math.random().toString(36).substring(2, 9) *)
RecordIds == {<<"r1">>, <<"r2">>}

ClockModes == {"SIGN_IN", "SIGN_OUT"}

ScannerMounted == Len(scanner) > 0 /\ scanner[Len(scanner)].mounted

(* CameraScanner mounts: its setup effect runs *)
ScannerMount ==
  /\ ~ScannerMounted
  /\ Len(scanner) < MaxMounts
  /\ scanner' = Append(scanner, NewSetup)
  /\ isCameraReady' = FALSE
  /\ last' = Last("camera", << >>, "mount")
  /\ UNCHANGED <<pulls, storage, mounted, activeTab, clockMode, staffList, history, webhookUrl,
                 isProcessing, isSyncing, toast, lastRecognition, syncEffectDue,
                 intervalOn, pull, cloudData, remoteHistory, remoteStaff, otherRows, localeParses, posts, calls,
                 apiKey, identifyOutcome, modelRequests, dismissTimers, testStatus,
                 testInFlight, testRequests, errorOverlay, now, ops>>

(* CameraScanner unmounts: the cleanup runs, the state of the component is
   gone *)
ScannerUnmount ==
  /\ ScannerMounted
  /\ scanner' = [scanner EXCEPT ![Len(scanner)] = setupCameraCleanup(@)]
  /\ isCameraReady' = FALSE
  /\ last' = Last("camera", << >>, "unmount")
  /\ UNCHANGED <<pulls, storage, mounted, activeTab, clockMode, staffList, history, webhookUrl,
                 isProcessing, isSyncing, toast, lastRecognition, syncEffectDue,
                 intervalOn, pull, cloudData, remoteHistory, remoteStaff, otherRows, localeParses, posts, calls,
                 apiKey, identifyOutcome, modelRequests, dismissTimers, testStatus,
                 testInFlight, testRequests, errorOverlay, now, ops>>

(* The getUserMedia request of the run i settles: the stream is granted *)
StreamAcquired(i) ==
  /\ i \in 1..Len(scanner)
  /\ scanner[i].request = "pending"
  /\ scanner' = [scanner EXCEPT ![i] = setupCameraGranted(@)]
  /\ last' = Last("camera", << >>, IF scanner[i].mounted THEN "granted" ELSE "released")
  /\ UNCHANGED <<pulls, storage, mounted, activeTab, clockMode, staffList, history, webhookUrl,
                 isProcessing, isSyncing, toast, lastRecognition, syncEffectDue,
                 intervalOn, pull, cloudData, remoteHistory, remoteStaff, otherRows, localeParses, posts, calls,
                 apiKey, isCameraReady, identifyOutcome, modelRequests, dismissTimers, testStatus,
                 testInFlight, testRequests, errorOverlay, now, ops>>

(* The getUserMedia request of the run i settles: it is refused *)
AcquireFails(i) ==
  /\ i \in 1..Len(scanner)
  /\ scanner[i].request = "pending"
  /\ scanner' = [scanner EXCEPT ![i] = setupCameraFailed(@)]
  /\ last' = Last("camera", << >>, "refused")
  /\ UNCHANGED <<pulls, storage, mounted, activeTab, clockMode, staffList, history, webhookUrl,
                 isProcessing, isSyncing, toast, lastRecognition, syncEffectDue,
                 intervalOn, pull, cloudData, remoteHistory, remoteStaff, otherRows, localeParses, posts, calls,
                 apiKey, isCameraReady, identifyOutcome, modelRequests, dismissTimers, testStatus,
                 testInFlight, testRequests, errorOverlay, now, ops>>

(* video.onloadedmetadata of the run i (48-53) *)
MetadataLoaded(i) ==
  /\ i \in 1..Len(scanner)
  /\ scanner[i].held /\ ~scanner[i].ready
  /\ scanner[i].mounted
  /\ scanner' = [scanner EXCEPT ![i].ready = TRUE]
  /\ isCameraReady' = TRUE
  /\ last' = Last("camera", << >>, "ready")
  /\ UNCHANGED <<pulls, storage, mounted, activeTab, clockMode, staffList, history, webhookUrl,
                 isProcessing, isSyncing, toast, lastRecognition, syncEffectDue,
                 intervalOn, pull, cloudData, remoteHistory, remoteStaff, otherRows, localeParses, posts, calls,
                 apiKey, identifyOutcome, modelRequests, dismissTimers, testStatus,
                 testInFlight, testRequests, errorOverlay, now, ops>>

(* The camera stream is set up and its metadata loaded (CameraScanner 38-53):
   the request of the mounted scanner is granted and the metadata loads *)
CameraLoaded ==
  /\ mounted
  /\ ~isCameraReady
  /\ ScannerMounted
  /\ scanner[Len(scanner)].request = "pending"
  /\ scanner' = [scanner EXCEPT ![Len(scanner)] =
                   [setupCameraGranted(@) EXCEPT !.ready = TRUE]]
  /\ isCameraReady' = TRUE
  /\ last' = Last("camera", << >>, "ready")
  /\ UNCHANGED <<pulls, storage, mounted, activeTab, clockMode, staffList, history, webhookUrl,
                 isProcessing, isSyncing, toast, lastRecognition, syncEffectDue,
                 intervalOn, pull, cloudData, remoteHistory, remoteStaff, otherRows, localeParses, posts, calls,
                 apiKey, identifyOutcome, modelRequests, dismissTimers, testStatus,
                 testInFlight, testRequests, errorOverlay, now, ops>>

(* The Sign In / Sign Out toggles (App.tsx 607-612) *)
SetClockMode(mode) ==
  /\ mounted
  /\ ~errorOverlay
  /\ mode # clockMode
  /\ ops < MaxOps
  /\ ops' = ops + 1
  /\ clockMode' = mode
  /\ last' = Last("mode", << >>, mode)
  /\ UNCHANGED <<scanner, pulls, storage, mounted, activeTab, staffList, history, webhookUrl,
                 isProcessing, isSyncing, toast, lastRecognition, syncEffectDue,
                 intervalOn, pull, cloudData, remoteHistory, remoteStaff, otherRows, localeParses, posts, calls,
                 apiKey, isCameraReady, identifyOutcome, modelRequests, dismissTimers,
                 testStatus, testInFlight, testRequests, errorOverlay, now>>

(* CameraScanner.captureFrame up to the await of identifyStaff. The call keeps
   the staffList of this render, and onResult is the handleRecognition of this
   render, with its staffList, webhookUrl and clockMode *)
captureFrame ==
  /\ mounted
  /\ ~errorOverlay
  /\ ~isProcessing /\ isCameraReady
  /\ ops < MaxOps
  /\ Len(calls) < MaxCalls
  /\ ops' = ops + 1
  /\ LET sends == identifyStaffSends(apiKey, staffList)
     IN  /\ calls' = Append(calls, [staffList |-> staffList, webhookUrl |-> webhookUrl,
                                    clockMode |-> clockMode, sent |-> sends])
         /\ modelRequests' = IF sends THEN modelRequests + 1 ELSE modelRequests
         /\ last' = Last("capture", << >>, IF sends THEN "sent" ELSE "not sent")
  /\ UNCHANGED <<scanner, pulls, storage, mounted, activeTab, clockMode, staffList, history, webhookUrl,
                 isProcessing, isSyncing, toast, lastRecognition, syncEffectDue,
                 intervalOn, pull, cloudData, remoteHistory, remoteStaff, otherRows, localeParses, posts,
                 apiKey, isCameraReady, identifyOutcome, dismissTimers, testStatus,
                 testInFlight, testRequests, errorOverlay, now>>

(* An update that puts the new record behind the records of the history *)
AddRecordLast(prev, newRecord) == Take(Append(prev, newRecord), HISTORY_CAP)

(* setHistory(prev => [newRecord, ...prev].slice(0, 100)) *)
AddRecord(prev, newRecord) == Take(<<newRecord>> \o prev, HISTORY_CAP)

(* App.handleRecognition, as closed over the render c of the capture.
   setIsProcessing(true) and setIsProcessing(false) run in the same task. *)
handleRecognition(result, c, id) ==
  IF ~apiKey
    THEN /\ errorOverlay' = TRUE
         /\ last' = Last("recognition", result.staffId, "no api key")
         /\ UNCHANGED <<history, lastRecognition, posts, dismissTimers, toast, storage,
                        isProcessing>>
  ELSE IF Len(c.staffList) = 0
    THEN /\ toast' = Toast("No staff registered.", "error")
         /\ last' = Last("recognition", result.staffId, "no staff")
         /\ UNCHANGED <<history, lastRecognition, posts, dismissTimers, errorOverlay,
                        storage, isProcessing>>
  ELSE IF result.identified /\ Truthy(result.staffId) /\ Truthy(result.staffName)
    THEN LET newRecord == Record(id, result.staffId, result.staffName, now,
                                 localeParses, c.clockMode)
         IN  /\ history' = AddRecord(history, newRecord)
             /\ lastRecognition' = [shown |-> TRUE, name |-> result.staffName,
                                    type |-> c.clockMode, t |-> now]
             /\ posts' = IF Truthy(c.webhookUrl) /\ isScriptUrl(c.webhookUrl)
                              /\ syncSends(c.webhookUrl)
                           THEN Append(posts, Post("add_record", newRecord))
                           ELSE posts
             /\ dismissTimers' = dismissTimers + 1
             /\ isProcessing' = FALSE
             /\ storage' = PersistHistory(storage, history')
             /\ last' = Last("recognition", id, "recorded")
             /\ UNCHANGED <<toast, errorOverlay>>
  ELSE /\ toast' = Toast(result.message, "error")
       /\ isProcessing' = FALSE
       /\ last' = Last("recognition", result.staffId, "unmatched")
       /\ UNCHANGED <<history, lastRecognition, posts, dismissTimers, errorOverlay,
                      storage>>

(* identifyStaff settles and captureFrame hands the result to onResult *)
IdentifyReturns(reply, id) ==
  /\ Len(calls) > 0
  /\ Len(posts) < MaxPosts
  /\ LET c == Head(calls)
         outcome == IF c.sent THEN identifyStaffReply(reply)
                              ELSE identifyStaffShortcut(apiKey, c.staffList)
     IN  /\ c.sent \/ reply = Reply(TRUE, FALSE, FALSE, NoResult)
         /\ identifyOutcome' = outcome
         /\ handleRecognition(captureResult(outcome), c, id)
  /\ calls' = Tail(calls)
  /\ UNCHANGED <<scanner, pulls, mounted, activeTab, clockMode, staffList, webhookUrl, isSyncing,
                 syncEffectDue, intervalOn, pull, cloudData, remoteHistory, remoteStaff, otherRows, localeParses,
                 apiKey, isCameraReady, modelRequests, testStatus, testInFlight,
                 testRequests, now, ops>>

(* A timer that fires and leaves the confirmation on display *)
DismissTimerKeeps ==
  /\ dismissTimers > 0
  /\ dismissTimers' = dismissTimers - 1
  /\ last' = Last("dismiss", << >>, "timer")
  /\ UNCHANGED <<scanner, pulls, storage, mounted, activeTab, clockMode, staffList, history, webhookUrl,
                 isProcessing, isSyncing, toast, lastRecognition, syncEffectDue, intervalOn, pull,
                 cloudData, remoteHistory, remoteStaff, otherRows, localeParses, posts, calls, apiKey,
                 isCameraReady, identifyOutcome, modelRequests, testStatus,
                 testInFlight, testRequests, errorOverlay, now, ops>>

(* setTimeout(() => setLastRecognition(null), 5000) fires *)
DismissTimer ==
  /\ dismissTimers > 0
  /\ dismissTimers' = dismissTimers - 1
  /\ lastRecognition' = NoRecognition
  /\ last' = Last("dismiss", << >>, "timer")
  /\ UNCHANGED <<scanner, pulls, storage, mounted, activeTab, clockMode, staffList, history, webhookUrl,
                 isProcessing, isSyncing, toast, syncEffectDue, intervalOn, pull,
                 cloudData, remoteHistory, remoteStaff, otherRows, localeParses, posts, calls, apiKey,
                 isCameraReady, identifyOutcome, modelRequests, testStatus,
                 testInFlight, testRequests, errorOverlay, now, ops>>

(* The close button of the toast (App.tsx 578) *)
CloseToast ==
  /\ toast # NoToast
  /\ toast' = NoToast
  /\ last' = Last("toast", << >>, "closed")
  /\ UNCHANGED <<scanner, pulls, storage, mounted, activeTab, clockMode, staffList, history, webhookUrl,
                 isProcessing, isSyncing, lastRecognition, syncEffectDue, intervalOn,
                 pull, cloudData, remoteHistory, remoteStaff, otherRows, localeParses, posts, calls, apiKey,
                 isCameraReady, identifyOutcome, modelRequests, dismissTimers,
                 testStatus, testInFlight, testRequests, errorOverlay, now, ops>>

(* A minute passes *)
Tick ==
  /\ now < StartMinute + MaxTicks
  /\ now' = now + 1
  /\ last' = Last("tick", << >>, "minute")
  /\ UNCHANGED <<scanner, pulls, storage, mounted, activeTab, clockMode, staffList, history, webhookUrl,
                 isProcessing, isSyncing, toast, lastRecognition, syncEffectDue,
                 intervalOn, pull, cloudData, remoteHistory, remoteStaff, otherRows, localeParses, posts, calls,
                 apiKey, isCameraReady, identifyOutcome, modelRequests, dismissTimers,
                 testStatus, testInFlight, testRequests, errorOverlay, ops>>

----------------------------------------------------------------------------
(* Connection test *)

TestResponses ==
  { [outcome |-> "abort", ok |-> FALSE, text |-> << >>],
    [outcome |-> "error", ok |-> FALSE, text |-> << >>],
    [outcome |-> "response", ok |-> FALSE, text |-> <<"Error">>],
    [outcome |-> "response", ok |-> TRUE, text |-> <<"OK", Blank>>],
    [outcome |-> "response", ok |-> TRUE, text |-> <<"<html>">>] }

Status(result) ==
  [type |-> IF result.success THEN "success" ELSE "error", message |-> result.message]

(* GeminiService.testConnection(url) up to its await, or to its return *)
testConnection(url) ==
  LET guard == testConnectionGuard(url)
  IN  IF guard.message = "send"
        THEN /\ testRequests' = testRequests + 1
             /\ testInFlight' = TRUE
             /\ testStatus' = [type |-> "loading", message |-> "Testing connection..."]
        ELSE /\ testStatus' = Status(guard)
             /\ UNCHANGED <<testRequests, testInFlight>>

(* SheetConfig.handleTest: the Test button *)
handleTest ==
  /\ mounted
  /\ ~errorOverlay
  /\ activeTab = "settings"
  /\ Truthy(webhookUrl) /\ testStatus.type # "loading"
  /\ ops < MaxOps
  /\ ops' = ops + 1
  /\ testConnection(webhookUrl)
  /\ last' = Last("test", webhookUrl, IF testInFlight' THEN "sent" ELSE "refused")
  /\ UNCHANGED <<scanner, pulls, storage, mounted, activeTab, clockMode, staffList, history, webhookUrl,
                 isProcessing, isSyncing, toast, lastRecognition, syncEffectDue,
                 intervalOn, pull, cloudData, remoteHistory, remoteStaff, otherRows, localeParses, posts, calls,
                 apiKey, isCameraReady, identifyOutcome, modelRequests, dismissTimers,
                 errorOverlay, now>>

(* A call of GeminiService.testConnection(url), for any url *)
TestUrlTokens == {ScriptHost, "/exec", "docs.google.com", "/forms", "https://"}

TestUrls ==
  {GoodUrl, DevUrl, FormUrl, SheetUrl, ExecFormUrl, PlainExecUrl}
          \cup {<< >>} \cup {<<a>> : a \in TestUrlTokens}
          \cup {<<a, b>> : a \in TestUrlTokens, b \in TestUrlTokens}
          \cup {<<a, b, c>> : a \in TestUrlTokens, b \in TestUrlTokens, c \in TestUrlTokens}

TestCall(url) ==
  /\ ~testInFlight
  /\ ops < MaxOps
  /\ ops' = ops + 1
  /\ testConnection(url)
  /\ last' = Last("test", url, IF testInFlight' THEN "sent" ELSE "refused")
  /\ UNCHANGED <<scanner, pulls, storage, mounted, activeTab, clockMode, staffList, history, webhookUrl,
                 isProcessing, isSyncing, toast, lastRecognition, syncEffectDue,
                 intervalOn, pull, cloudData, remoteHistory, remoteStaff, otherRows,
                 localeParses, posts, calls, apiKey, isCameraReady, identifyOutcome,
                 modelRequests, dismissTimers, errorOverlay, now>>

(* The request of testConnection settles *)
TestSettles(resp) ==
  /\ testInFlight
  /\ testInFlight' = FALSE
  /\ testStatus' = Status(testConnectionResult(resp))
  /\ last' = Last("test", webhookUrl, "settled")
  /\ UNCHANGED <<scanner, pulls, storage, mounted, activeTab, clockMode, staffList, history, webhookUrl,
                 isProcessing, isSyncing, toast, lastRecognition, syncEffectDue,
                 intervalOn, pull, cloudData, remoteHistory, remoteStaff, otherRows, localeParses, posts, calls,
                 apiKey, isCameraReady, identifyOutcome, modelRequests, dismissTimers,
                 testRequests, errorOverlay, now, ops>>

----------------------------------------------------------------------------
(* Calls of fetchCloudData *)

(* The values a field of the parsed JSON may have: an array of rows, an
   object that holds the rows under keys (not an array), or none (the field
   is missing) *)
FetchFields(items) == {Field(TRUE, items), Field(FALSE, items), Field(FALSE, << >>)}

(* The values JSON.parse may return: null, 0, a string, an array, or an
   object with any of the fields *)
FetchValues ==
  { Json(FALSE, TRUE, Field(FALSE, << >>), Field(FALSE, << >>)),
    Json(FALSE, FALSE, Field(FALSE, << >>), Field(FALSE, << >>)),
    Json(TRUE, FALSE, Field(FALSE, << >>), Field(FALSE, << >>)),
    Json(TRUE, TRUE, Field(FALSE, << >>), Field(FALSE, << >>)) }
    \cup {Json(TRUE, TRUE, h, s) : h \in FetchFields(Log(1, TRUE)), s \in FetchFields(<<Ann>>)}

(* The outcomes of the request: fetch or text() rejects, or a response with
   or without a content type, a status, and a body that is empty, one
   character long or longer, and parses or does not *)
FetchResponses ==
  {Response(TRUE, << >>, FALSE, 0, FALSE, NoJson)}
    \cup {Response(FALSE, type, ok, 0, FALSE, NoJson) :
            type \in {<< >>, JsonType, HtmlType}, ok \in BOOLEAN}
    \cup {Response(FALSE, type, ok, length, FALSE, NoJson) :
            type \in {<< >>, JsonType, HtmlType}, ok \in BOOLEAN, length \in {1, 2}}
    \cup {Response(FALSE, type, ok, length, TRUE, data) :
            type \in {<< >>, JsonType, HtmlType}, ok \in BOOLEAN, length \in {1, 2},
            data \in FetchValues}

FetchUrls == {EmptyUrl, GoodUrl, DevUrl, FormUrl, ExecFormUrl, PlainExecUrl}

(* A call of GeminiService.fetchCloudData(url), for any url and any outcome
   of its request *)
FetchCall(url, resp) ==
  /\ ops < MaxOps
  /\ ops' = ops + 1
  /\ cloudData' = fetchCloudData(url, resp)
  /\ last' = Last("fetch", [url |-> url, resp |-> resp],
                  IF cloudData'.isNull THEN "null" ELSE "data")
  /\ UNCHANGED <<scanner, pulls, storage, mounted, activeTab, clockMode, staffList, history, webhookUrl,
                 isProcessing, isSyncing, toast, lastRecognition, syncEffectDue,
                 intervalOn, pull, remoteHistory, remoteStaff, otherRows,
                 localeParses, posts, calls, apiKey, isCameraReady, identifyOutcome,
                 modelRequests, dismissTimers, testStatus, testInFlight, testRequests,
                 errorOverlay, now>>

----------------------------------------------------------------------------
(* The specification *)

Next ==
  \/ Mount
  \/ \E tab \in Tabs : SetActiveTab(tab)
  \/ \E name \in NameTexts, role \in ROLE_OPTIONS, photo \in Photos, id \in IdTexts :
       handleSubmit(name, role, photo, id)
  \/ SyncEffect
  \/ TimerTick
  \/ ManualSync
  \/ \E url \in Urls : OnUrlChange(url)
  \/ \E resp \in Responses(remoteHistory, remoteStaff) : PullResponse(resp)
  \/ PostDelivered
  \/ PostLost
  \/ \E row \in otherRows : RemoteRowAdded(row)
  \/ \E s \in ForeignStaff : RemoteStaffAdded(s)
  \/ CameraLoaded
  \/ ScannerMount
  \/ ScannerUnmount
  \/ \E i \in 1..MaxMounts : StreamAcquired(i)
  \/ \E i \in 1..MaxMounts : AcquireFails(i)
  \/ \E i \in 1..MaxMounts : MetadataLoaded(i)
  \/ \E mode \in ClockModes : SetClockMode(mode)
  \/ captureFrame
  \/ \E reply \in ModelReplies, id \in RecordIds : IdentifyReturns(reply, id)
  \/ DismissTimer
  \/ CloseToast
  \/ Tick
  \/ handleTest
  \/ \E resp \in TestResponses : TestSettles(resp)

Spec == Init /\ [][Next]_vars

(* Registration, with the merges of the staff sheet *)
NextRegistration ==
  \/ Mount
  \/ \E tab \in Tabs : SetActiveTab(tab)
  \/ \E name \in NameTexts, role \in ROLE_OPTIONS, photo \in Photos, id \in IdTexts :
       handleSubmit(name, role, photo, id)
  \/ SyncEffect
  \/ \E resp \in Responses(remoteHistory, remoteStaff) : PullResponse(resp)
  \/ PostDelivered
  \/ PostLost
  \/ \E s \in ForeignStaff : RemoteStaffAdded(s)

SpecRegistration ==
  InitFrom({SmallStart, FullRosterStart}, {TRUE}) /\ [][NextRegistration]_vars

(* The attendance history: recognitions and the merges of the sheet *)
NextSync ==
  \/ Mount
  \/ CameraLoaded
  \/ captureFrame
  \/ \E reply \in ParsedReplies, id \in RecordIds : IdentifyReturns(reply, id)
  \/ SyncEffect
  \/ \E resp \in Responses(remoteHistory, remoteStaff) : PullResponse(resp)
  \/ PostDelivered
  \/ PostLost
  \/ \E row \in otherRows : RemoteRowAdded(row)

SpecSync ==
  InitFrom({SmallStart, FullLogStart, UnparsedLogStart}, {TRUE}) /\ [][NextSync]_vars

(* Capture and recognition *)
NextRecognition ==
  \/ Mount
  \/ CameraLoaded
  \/ \E mode \in ClockModes : SetClockMode(mode)
  \/ captureFrame
  \/ \E reply \in ModelReplies \cup {StrayReply}, id \in RecordIds :
       IdentifyReturns(reply, id)
  \/ DismissTimer
  \/ CloseToast
  \/ PostDelivered
  \/ PostLost

SpecRecognition ==
  InitFrom({FreshStart, SmallStart, FullLogStart}, BOOLEAN) /\ [][NextRecognition]_vars

(* The pushes of registrations and of recognitions *)
NextPush ==
  \/ Mount
  \/ \E tab \in Tabs : SetActiveTab(tab)
  \/ \E name \in NameTexts, role \in ROLE_OPTIONS, photo \in Photos, id \in IdTexts :
       handleSubmit(name, role, photo, id)
  \/ CameraLoaded
  \/ captureFrame
  \/ \E reply \in ParsedReplies, id \in RecordIds : IdentifyReturns(reply, id)
  \/ PostDelivered
  \/ PostLost

SpecPush == InitFrom({FreshStart, SmallStart}, {TRUE}) /\ [][NextPush]_vars

(* The triggers of a pull: the sync effect, the timer, the button, the URL *)
NextPull ==
  \/ Mount
  \/ \E tab \in Tabs : SetActiveTab(tab)
  \/ \E url \in Urls : OnUrlChange(url)
  \/ SyncEffect
  \/ TimerTick
  \/ ManualSync
  \/ \E resp \in Responses(remoteHistory, remoteStaff) : PullResponse(resp)
  \/ \E s \in ForeignStaff : RemoteStaffAdded(s)

SpecPull ==
  InitFrom({FreshStart, SmallStart, RepeatedRowStart}, {TRUE}) /\ [][NextPull]_vars

(* The camera scanner: mounts, unmounts and the requests for the camera *)
NextCamera ==
  \/ ScannerMount
  \/ ScannerUnmount
  \/ \E i \in 1..MaxMounts : StreamAcquired(i)
  \/ \E i \in 1..MaxMounts : AcquireFails(i)
  \/ \E i \in 1..MaxMounts : MetadataLoaded(i)

SpecCamera == InitFrom({FreshStart}, {TRUE}) /\ [][NextCamera]_vars

(* Calls of fetchCloudData *)
NextFetch == \E url \in FetchUrls, resp \in FetchResponses : FetchCall(url, resp)

SpecFetch == InitFrom({FreshStart}, {TRUE}) /\ [][NextFetch]_vars

(* setTimeout(() => controller.abort(), 10000) fires while the request of
   testConnection is pending (geminiService.ts 118-119, 133) *)
TestTimeout == TestSettles([outcome |-> "abort", ok |-> FALSE, text |-> << >>])

(* An identifyStaff call that sends no request settles by itself *)
IdentifyLocal ==
  /\ Len(calls) > 0
  /\ ~Head(calls).sent
  /\ \E id \in RecordIds : IdentifyReturns(Reply(TRUE, FALSE, FALSE, NoResult), id)

(* The calls that wait for a remote party: identifyStaff and testConnection.
   The steps of the client are taken in the end, timers included; nothing
   obliges the remote party to answer *)
NextTimeout ==
  \/ Mount
  \/ CameraLoaded
  \/ captureFrame
  \/ \E reply \in ModelReplies, id \in RecordIds : IdentifyReturns(reply, id)
  \/ DismissTimer
  \/ \E url \in {GoodUrl, FormUrl} : TestCall(url)
  \/ \E resp \in TestResponses : TestSettles(resp)

SpecTimeout ==
  /\ InitFrom({FreshStart, OfflineStart}, {TRUE})
  /\ [][NextTimeout]_vars
  /\ WF_vars(TestTimeout)
  /\ WF_vars(IdentifyLocal)
  /\ WF_vars(DismissTimer)

(* Startup and the settings view: what is loaded from localStorage and what
   is written back *)
NextStartup ==
  \/ Mount
  \/ \E tab \in Tabs : SetActiveTab(tab)
  \/ \E url \in Urls : OnUrlChange(url)
  \/ \E name \in NameTexts, role \in ROLE_OPTIONS, photo \in Photos, id \in IdTexts :
       handleSubmit(name, role, photo, id)
  \/ SyncEffect
  \/ \E resp \in Responses(remoteHistory, remoteStaff) : PullResponse(resp)
  \/ PostDelivered
  \/ PostLost

SpecStartup ==
  InitFrom({FreshStart, SmallStart, CorruptStaffStart, CorruptHistoryStart}, {TRUE})
    /\ [][NextStartup]_vars

(* Calls of testConnection *)
NextConnection ==
  \/ \E url \in TestUrls : TestCall(url)
  \/ \E resp \in TestResponses : TestSettles(resp)

SpecConnection == InitFrom({FreshStart}, {TRUE}) /\ [][NextConnection]_vars

----------------------------------------------------------------------------
(* Properties *)

CountId(h, id) == Cardinality({i \in 1..Len(h) : h[i].id = id})

(* A step of handleSubmit *)
SubmitStep == ops' = ops + 1 /\ last'.op = "register"

(* A step that hands the result of an identifyStaff call to handleRecognition *)
SettleStep == Len(calls) > 0 /\ calls' = Tail(calls)

(* A step that completes a pull *)
PullStep == Len(pull) > 0 /\ pull' = Tail(pull)

(* C1: a registration that reaches handleRegister with an id the identity
   list already holds is rejected with an error toast, and the identity list
   is the same list afterwards *)
C1_DuplicateIdRejected ==
  [][(SubmitStep /\ last'.out \in {"duplicate", "added"} /\ last'.arg \in Ids(staffList))
       => (staffList' = staffList /\ last'.out = "duplicate" /\ toast'.type = "error")]_vars

(* C1: a registration with an id of the list has just been rejected *)
C1_Witness ==
  /\ last.op = "register" /\ last.out = "duplicate"
  /\ last.arg \in Ids(staffList)
  /\ toast = Toast("already exists", "error")

(* C2, as stated: once the identity list holds MAX_STAFF entries, a submission
   of the registration form leaves the identity list unchanged *)
C2_CapacityRejected ==
  [][(SubmitStep /\ Len(staffList) >= MAX_STAFF) => staffList' = staffList]_vars

(* C3, as stated: a result with identified = true and a confidence below
   0.85 (85 hundredths) creates no attendance event: the history is unchanged
   and nothing is pushed *)
C3_LowConfidenceUnmatched ==
  [][(/\ SettleStep
      /\ identifyOutcome'.kind = "returns"
      /\ identifyOutcome'.value.identified
      /\ identifyOutcome'.value.confidence < 85)
       => (history' = history /\ posts' = posts)]_vars

(* C4, amended: a capture with an empty identity list sends no request to the
   model, and when the API key is set the call returns identified = false *)
C4_EmptySetNoRequest ==
  [][/\ (ops' = ops + 1 /\ last'.op = "capture" /\ Len(staffList) = 0)
          => (modelRequests' = modelRequests /\ last'.out = "not sent")
     /\ (SettleStep /\ Len(Head(calls).staffList) = 0)
          => /\ ~Head(calls).sent
             /\ modelRequests' = modelRequests
             /\ apiKey => /\ identifyOutcome'.kind = "returns"
                          /\ ~identifyOutcome'.value.identified]_vars

(* C4: with the API key set, a call with an empty identity list has returned
   identified = false and no request has been sent *)
C4_Witness ==
  /\ apiKey
  /\ Len(staffList) = 0
  /\ last.op = "recognition"
  /\ identifyOutcome =
       Outcome("returns", Result(FALSE, << >>, << >>, 0, "No registered staff found."))
  /\ modelRequests = 0

(* C4, as stated: every call with an empty identity list returns a result
   with identified = false, and sends no request *)
C4_EmptySetReturnsUnmatched ==
  [][(SettleStep /\ Len(Head(calls).staffList) = 0)
       => /\ modelRequests' = modelRequests
          /\ identifyOutcome'.kind = "returns"
          /\ ~identifyOutcome'.value.identified]_vars

(* C5, amended: a pull never duplicates a record it returns: for each id of
   the payload that the history already holds, the number of records with
   that id does not grow, and it shrinks only when the merged history is cut
   at the cap *)
C5_MergeNeverDuplicates ==
  [][PullStep =>
       \A id \in Ids(history) \cap Ids(cloudData'.history) :
         /\ CountId(history', id) <= CountId(history, id)
         /\ CountId(history', id) < CountId(history, id) => Len(history') = HISTORY_CAP]_vars

(* C5: an event created by a recognition of this run has reached the sheet,
   a pull has returned it, and the history holds it once *)
C5_Witness ==
  /\ last = Last("pull", JsonType, "data")
  /\ \E id \in RecordIds :
       /\ id \in Ids(cloudData.history)
       /\ CountId(history, id) = 1

(* C5, as stated: an event the history holds once and a pull returns is held
   exactly once after the pull *)
C5_ExactlyOneAfterPull ==
  [][PullStep =>
       \A id \in Ids(history) \cap Ids(cloudData'.history) :
         CountId(history, id) = 1 => CountId(history', id) = 1]_vars

(* C6, as stated: after a pull that returned data, a second pull returning
   the same data changes neither the history nor the identity list *)
C6_PullIdempotent ==
  (last.op = "pull" /\ last.out = "data")
    => /\ MergeHistory(history, cloudData.history) = {history}
       /\ MergeStaff(staffList, cloudData.staff) = staffList

(* C7: the history never holds more than HISTORY_CAP records *)
C7_HistoryCapped == Len(history) <= HISTORY_CAP

(* C7: the history is full and the oldest record of the start has been cut *)
C7_Witness ==
  /\ Len(history) = HISTORY_CAP
  /\ storage.history.value = history
  /\ <<"h", ToString(HISTORY_CAP - 1)>> \notin Ids(history)

(* C8, as stated: when a recognition or a merge adds a record to a history at
   the cap, no record that leaves the history is more recent than a record
   that stays *)
C8_OldestEvicted ==
  [][(Len(history) = HISTORY_CAP /\ Range(history') \ Range(history) # {})
       => \A gone \in Range(history) \ Range(history'), kept \in Range(history') :
            gone.t <= kept.t]_vars

(* C9: a pull answered by an HTML page: fetchCloudData returns null, the
   history and the identity list are unchanged, and the pull completes with
   isSyncing reset to false *)
C9_HtmlPageIgnored ==
  [][(PullStep /\ last'.op = "pull" /\ last'.arg = HtmlType)
       => /\ cloudData'.isNull
          /\ history' = history
          /\ staffList' = staffList
          /\ isSyncing /\ ~isSyncing']_vars

(* C9: a pull of a client with a history has been answered by an HTML page *)
C9_Witness ==
  /\ last = Last("pull", HtmlType, "null")
  /\ cloudData = NullData
  /\ ~isSyncing
  /\ Len(history) > 0

(* C10: testConnection, called with a URL that has not the shape of a script
   endpoint, returns success = false with one of the two invalid-URL messages
   and sends no request *)
C10_BadUrlRefused ==
  [][(ops' = ops + 1 /\ last'.op = "test" /\ ~ScriptEndpointShape(last'.arg))
       => /\ testRequests' = testRequests
          /\ ~testInFlight'
          /\ testStatus'.type = "error"
          /\ testStatus'.message \in {InvalidScriptUrlMsg, GoogleFormUrlMsg}]_vars

(* C10: a Google Form URL has been refused without a request *)
C10_Witness ==
  /\ last = Last("test", FormUrl, "refused")
  /\ testStatus = [type |-> "error", message |-> InvalidScriptUrlMsg]
  /\ testRequests = 0

(* The confidence threshold of the specification, in hundredths *)
Positive(v) ==
  v.identified /\ Truthy(v.staffId) /\ Truthy(v.staffName) /\ v.confidence >= 85

(* C11: a positive result, handled by a handleRecognition whose identity list
   is not empty, adds exactly one record to the history: the record is first,
   it carries the staffId and staffName of the result, the clock mode selected
   when the frame was captured, status PRESENT and method FACE_RECOGNITION;
   the records the history held follow in their order, the last one leaving
   when the history was at the cap *)
C11_PositiveResultRecorded ==
  [][(/\ SettleStep
      /\ identifyOutcome'.kind = "returns"
      /\ Positive(identifyOutcome'.value)
      /\ Len(Head(calls).staffList) > 0)
       => /\ Len(history') = IF Len(history) < HISTORY_CAP THEN Len(history) + 1
                                                           ELSE HISTORY_CAP
          /\ history'[1].staffId = identifyOutcome'.value.staffId
          /\ history'[1].staffName = identifyOutcome'.value.staffName
          /\ history'[1].type = Head(calls).clockMode
          /\ history'[1].status = "PRESENT"
          /\ history'[1].method = "FACE_RECOGNITION"
          /\ \A i \in 2..Len(history') : history'[i] = history[i - 1]]_vars

(* C11: a positive result of a frame captured in SIGN_OUT mode has been
   recorded in front of the record the history held *)
C11_Witness ==
  /\ last.op = "recognition" /\ last.out = "recorded"
  /\ Positive(identifyOutcome.value)
  /\ Len(history) = 2
  /\ history[1].staffId = <<"E1">> /\ history[1].staffName = <<"Ann">>
  /\ history[1].type = "SIGN_OUT"
  /\ history[2].id = <<"h", "1">>

(* C12: the handler that starts a push completes in the same step with the
   new record in local state and in localStorage and with isProcessing false,
   the push still in flight; and the step that ends a push, delivered or
   failed, changes nothing of the local state *)
C12_PushNeverBlocks ==
  [][/\ Len(posts') > Len(posts) =>
          LET p == posts'[Len(posts')]
          IN  /\ p.action = "add_record" =>
                   /\ history'[1] = p.data
                   /\ storage'.history = Item(history')
                   /\ calls' = Tail(calls)
              /\ p.action = "add_staff" =>
                   /\ staffList'[Len(staffList')] = p.data
                   /\ storage'.staff = Item(staffList')
                   /\ toast'.type = "success"
              /\ ~isProcessing' /\ ~errorOverlay'
     /\ Len(posts') < Len(posts) =>
          UNCHANGED <<history, staffList, storage, isProcessing, toast, errorOverlay,
                      activeTab, calls>>]_vars

(* C12: the push of a registration and the push of a recognition have both
   failed; the new identity and the new record are in local state and the
   application is idle *)
C12_Witness ==
  /\ last = Last("post", << >>, "lost")
  /\ Len(posts) = 0
  /\ <<"E2">> \in Ids(staffList)
  /\ \E id \in RecordIds : id \in Ids(history)
  /\ storage.history = Item(history) /\ storage.staff = Item(staffList)
  /\ ~isProcessing /\ ~errorOverlay

(* A step of one of the triggers of fetchFromCloud *)
TriggerStep == last'.op \in {"effect", "timer", "button", "url"}

(* C13: at most one fetchCloudData request is in flight, and a trigger that
   arrives while one is in flight starts no request: the request in flight
   stays the only one and the number of requests started does not change *)
C13_PullsNeverOverlap ==
  [][/\ Len(pull') <= 1
     /\ (TriggerStep /\ Len(pull) > 0)
          => (pull' = pull /\ pulls' = pulls /\ isSyncing')]_vars

(* C13: the timer has fired while a pull was in flight and has started
   nothing *)
C13_Witness ==
  /\ last = Last("timer", << >>, "idle")
  /\ Len(pull) = 1 /\ isSyncing
  /\ pulls = 1

(* C14, as stated: at most one identifyStaff call is outstanding at any
   time *)
C14_OneCallOutstanding == Len(calls) <= 1

(* The records of h whose id the payload does not hold *)
LocalOnly(h, payload) == {r \in Range(h) : r.id \notin Ids(payload)}

(* C15, amended: a merge modifies no local record; the identity list keeps
   every entry at its place; an attendance record that the payload does not
   hold stays in the history, unchanged, unless the merged history is cut at
   the cap *)
C15_MergeKeepsLocalRecords ==
  [][PullStep =>
       /\ SubSeq(staffList', 1, Len(staffList)) = staffList
       /\ \/ LocalOnly(history, cloudData'.history) \subseteq Range(history')
          \/ /\ Len(history') = HISTORY_CAP
             /\ Range(history') \ Range(history) # {}]_vars

(* C15: a pull has merged a row of another client into a history that holds
   a record the sheet does not hold, and the record is still there *)
C15_Witness ==
  /\ last = Last("pull", JsonType, "data")
  /\ \E id \in RecordIds : id \in Ids(history) /\ id \notin Ids(cloudData.history)
  /\ \E row \in otherRows : row \in Range(history) /\ row \in Range(cloudData.history)

(* C15, as stated: every record that is in local state before the merge and
   is not in the payload is in local state, unchanged, after the merge *)
C15_LocalOnlyNeverRemoved ==
  [][PullStep =>
       /\ Range(staffList) \subseteq Range(staffList')
       /\ LocalOnly(history, cloudData'.history) \subseteq Range(history')]_vars

(* C16, as stated: no two entries of the identity list share an id *)
C16_IdentityIdsUnique == Cardinality(Ids(staffList)) = Len(staffList)

LiveStreams == {i \in 1..Len(scanner) : scanner[i].stream = "live"}

(* C17: at most one camera stream is live at a time, and a run of the setup
   effect that is unmounted and whose request has settled holds no live
   stream *)
C17_OneStreamAndReleased ==
  /\ Cardinality(LiveStreams) <= 1
  /\ \A i \in 1..Len(scanner) :
       (~scanner[i].mounted /\ scanner[i].request # "pending")
         => scanner[i].stream # "live"

(* C17: the scanner was unmounted while its request was pending; the stream
   granted afterwards has been stopped, and the scanner mounted since holds
   the one live stream *)
C17_Witness ==
  /\ Len(scanner) >= 2
  /\ ~scanner[1].mounted /\ scanner[1].request = "granted"
  /\ scanner[1].stream = "stopped" /\ ~scanner[1].held
  /\ scanner[2].mounted /\ scanner[2].stream = "live"
  /\ last = Last("camera", << >>, "released")

(* The outcomes for which fetchCloudData has no data to return *)
FetchFailed(url, resp) ==
  \/ ~Truthy(url) \/ ~StartsWith(url, ScriptHost) \/ ~Includes(url, "/exec")
  \/ resp.fails
  \/ ~Includes(resp.contentType, "application/json")
  \/ ~resp.ok
  \/ resp.length < 2
  \/ ~resp.parses
  \/ ~resp.data.truthy \/ ~resp.data.isObject

(* C18: for every outcome of the request fetchCloudData returns null or an
   object with two arrays: null when the request fails, the status is not OK,
   the content type is not JSON, the body is empty or not JSON or not an
   object; otherwise the history and staff fields of the body where they are
   arrays and an empty array where they are not *)
C18_FetchReturnsNullOrArrays ==
  last.op = "fetch" =>
    LET url == last.arg.url
        resp == last.arg.resp
    IN  IF FetchFailed(url, resp)
          THEN cloudData = NullData
          ELSE /\ ~cloudData.isNull
               /\ cloudData.history = IF resp.data.history.isArray
                                        THEN resp.data.history.items ELSE << >>
               /\ cloudData.staff = IF resp.data.staff.isArray
                                      THEN resp.data.staff.items ELSE << >>

(* C18: the body was an object whose history is not an array and whose staff
   is an array: the call has returned an empty history and the staff *)
C18_Witness ==
  /\ last.op = "fetch" /\ last.out = "data"
  /\ last.arg.resp.data.history = Field(FALSE, Log(1, TRUE))
  /\ cloudData = CloudData(<< >>, <<Ann>>)

(* C19, as stated: every identifyStaff call and every testConnection call
   ends, whether or not the remote party answers *)
C19_CallsTerminate ==
  /\ testInFlight ~> ~testInFlight
  /\ (Len(calls) > 0) ~> (Len(calls) = 0)

(* C20, as stated: identifyStaff returns a result only when the reply is a
   value of the schema; for any other reply it throws *)
C20_ReturnedResultConforms ==
  identifyOutcome.kind = "returns" => identifyOutcome.value.typed

(* The step of the mount effects *)
MountStep == ~mounted /\ mounted'

(* C21: when the stored identity list or the stored history does not parse,
   the mount effects complete, no error overlay is raised, and the state of
   that entry is empty *)
C21_CorruptEntryStartsEmpty ==
  [][MountStep =>
       /\ ~errorOverlay'
       /\ (storage.staff.present /\ ~storage.staff.valid) => staffList' = << >>
       /\ (storage.history.present /\ ~storage.history.valid) => history' = << >>]_vars

(* C21: the application started on a stored identity list that did not parse
   and has since registered an identity *)
C21_Witness ==
  /\ mounted /\ ~errorOverlay
  /\ last.op = "register" /\ last.out = "added"
  /\ Len(staffList) = 1
  /\ storage.staff = Item(staffList)
  /\ storage.url = Item(GoodUrl) /\ webhookUrl = EmptyUrl

(* The URL a restart would read from localStorage *)
StoredUrl(st) == IF st.url.present THEN st.url.value ELSE EmptyUrl

(* C22, as stated: after every change of the endpoint URL in the settings
   view the stored URL is the URL in memory *)
C22_PersistedUrlFollows ==
  [][(ops' = ops + 1 /\ last'.op = "url") => StoredUrl(storage') = webhookUrl']_vars

(* An identity with its four required fields *)
Complete(staff) ==
  Truthy(staff.id) /\ Truthy(staff.name) /\ Truthy(staff.role) /\ Truthy(staff.avatarUrl)

(* C23, as stated: a submission of the registration form adds to the identity
   list, and sends to the endpoint, only an identity whose id, name, role and
   photo are not empty *)
C23_NoEmptyFieldRegistered ==
  [][SubmitStep =>
       /\ staffList' # staffList => Complete(staffList'[Len(staffList')])
       /\ posts' # posts => Complete(posts'[Len(posts')].data)]_vars

(* C24: a confirmation on display is cleared in the end by a timer of the
   client, with no action of the user, and every step that hands a result to
   handleRecognition leaves isProcessing false *)
C24_ConfirmationClearsAndIdle ==
  /\ lastRecognition.shown ~> ~lastRecognition.shown
  /\ [][SettleStep => ~isProcessing']_vars

(* C24: the confirmation of a recognition has been cleared by its timer *)
C24_Witness ==
  /\ last = Last("dismiss", << >>, "timer")
  /\ ~lastRecognition.shown
  /\ \E id \in RecordIds : id \in Ids(history)
  /\ dismissTimers = 0 /\ ~isProcessing

(* C25, as stated: the completion of a pull does not by itself start another
   pull: no run of the sync effect that directly follows the response to a
   pull starts a request *)
C25_CompletionStartsNoPull ==
  [][(last.op = "pull" /\ last'.op = "effect") => pulls' = pulls]_vars

(* C26, as stated: the history never holds two records with the same id *)
C26_HistoryIdsUnique ==
  \A i, j \in 1..Len(history) : history[i].id = history[j].id => i = j

(* C27, as stated: every record handleRecognition creates carries the
   staffId of an identity of the identity list *)
C27_RecordedIdIsRegistered ==
  [][(SettleStep /\ history' # history) => history'[1].staffId \in Ids(staffList)]_vars

(* C28, as stated: a mount on a stored identity list that does not parse
   loads the stored history and the stored URL into the state and leaves both
   in the storage *)
C28_OtherEntriesSurvive ==
  [][(/\ MountStep
      /\ storage.staff.present /\ ~storage.staff.valid
      /\ storage.history.present /\ storage.history.valid
      /\ storage.url.present)
       => /\ history' = storage.history.value
          /\ webhookUrl' = storage.url.value
          /\ storage'.history = storage.history
          /\ storage'.url = storage.url]_vars

(* C29, as stated: the identity list never holds more than MAX_STAFF
   identities *)
C29_RosterWithinCap == Len(staffList) <= MAX_STAFF

(* C30, as stated: a dismissal timer that fires while the timer of a later
   recognition is still pending leaves the confirmation on display *)
C30_EarlierTimerKeepsLater ==
  [][(/\ dismissTimers > 1
      /\ dismissTimers' = dismissTimers - 1
      /\ lastRecognition.shown)
       => lastRecognition' = lastRecognition]_vars

====
